---- MODULE Spec2Model ----
(***************************************************************************)
(* Model of src/app.py: the /upload handler upload_csv of the UTI          *)
(* antibiotic-resistance predictor.  One request is processed at a time;   *)
(* the handler is cut at its calls into the classifiers and the explainer, *)
(* whose results (or exceptions) are the nondeterministic inputs.          *)
(*                                                                         *)
(* Column names are sequences of one-character strings, so that            *)
(* str.strip() and read_csv's renaming of repeated names are computed.     *)
(* Probabilities are integers in units of 1/10000 (81.50% = 8150), SHAP    *)
(* values are integers in units of 1/10000.                                *)
(***************************************************************************)
EXTENDS Integers, Sequences, FiniteSets, TLC

VARIABLES
    models,             \* line 13: registry, labels in dict (insertion) order
    expected_features,  \* line 14: the ordered feature schema
    static,             \* the static/ directory: set of file names
    pc,                 \* position of the handler
    request,            \* the multipart request being handled
    uid,                \* line 151
    df,                 \* the DataFrame's columns, in order
    i,                  \* position of the loop of line 153 in models
    pred,               \* line 154: local pred of the current iteration
    predictions,        \* line 146/156: dict, as a sequence of <<abx, pred>>
    probabilities,      \* line 147/157: dict, as a sequence of <<abx, prob>>
    explanations,       \* line 148/179
    csv_rows,           \* line 149/159
    shap_vals,          \* line 163: shap_vals.values[0]
    top_df,             \* line 164-167
    exc,                \* the exception caught at line 237
    response,           \* what the handler returned
    csv_out,            \* content written to csv_file (line 202)
    pdf_out,            \* content written to pdf_path (lines 209-213)
    passes,             \* history: every classifier evaluation of this request
    explained,          \* history: labels the explainer was invoked for
    written             \* history: files this request has written

vars == <<models, expected_features, static, pc, request, uid, df, i, pred,
          predictions, probabilities, explanations, csv_rows, shap_vals,
          top_df, exc, response, csv_out, pdf_out, passes, explained, written>>

(***************************************************************************)
(* Bounds of the model                                                     *)
(***************************************************************************)
MaxCols == 3            \* longest CSV header drawn
NumRankFeatures == 6    \* schema length of the ranking specification

(***************************************************************************)
(* Program constants                                                       *)
(***************************************************************************)
TopK == 5

(***************************************************************************)
(* Sequence helpers                                                        *)
(***************************************************************************)
Range(s) == {s[k] : k \in 1..Len(s)}

RECURSIVE Concat(_)
Concat(ss) == IF ss = <<>> THEN <<>> ELSE Head(ss) \o Concat(Tail(ss))

RECURSIVE SeqsUpTo(_, _)
SeqsUpTo(S, n) ==
    IF n = 0 THEN {<<>>}
    ELSE LET shorter == SeqsUpTo(S, n - 1)
         IN  shorter \cup {Append(s, x) : s \in {t \in shorter : Len(t) = n - 1}, x \in S}

Abs(x) == IF x < 0 THEN -x ELSE x

(***************************************************************************)
(* Inputs                                                                  *)
(***************************************************************************)
Labels == <<"AMX", "CIP">>
Schema == << <<"a">>, <<"b">> >>
RawNames == { <<"a">>, <<" ", "a", " ">>, <<"b">>, <<"x">> }
Headers == SeqsUpTo(RawNames, MaxCols)
Requests == {[kind |-> "nofile", header |-> <<>>], [kind |-> "badcsv", header |-> <<>>]}
            \cup {[kind |-> "csv", header |-> h] : h \in Headers}
UIDs == {"u1"}
\* One evaluation pass of a classifier: the class it selects and the
\* probability of class 1 it computes.
Outcomes == {[pred |-> 0, prob |-> 250], [pred |-> 1, prob |-> 8150]}
ShapVals == {-2, -1, 1}
RankSchema == [k \in 1..NumRankFeatures |-> <<"f", ToString(k)>>]

NoExc == [type |-> "none", msg |-> [text |-> "", names |-> <<>>]]
NoResponse == [status |-> 0, body |-> [none |-> TRUE]]
NoRequest == [kind |-> "none", header |-> <<>>]

(***************************************************************************)
(* pandas: read_csv header, str.strip, DataFrame.__getitem__(list)         *)
(***************************************************************************)
IsSpace(c) == c = " "

RECURSIVE LStrip(_)
LStrip(s) == IF s # <<>> /\ IsSpace(Head(s)) THEN LStrip(Tail(s)) ELSE s

RECURSIVE RStrip(_)
RStrip(s) == IF s # <<>> /\ IsSpace(s[Len(s)]) THEN RStrip(SubSeq(s, 1, Len(s) - 1)) ELSE s

Strip(s) == RStrip(LStrip(s))

\* read_csv renames the k-th repetition of a header name to "name.k".
MangleDupes(header) ==
    [k \in 1..Len(header) |->
        LET n == Cardinality({j \in 1..(k - 1) : header[j] = header[k]})
        IN  IF n = 0 THEN header[k] ELSE header[k] \o <<".", ToString(n)>>]

\* Lines 139-140: the frame's columns; src is the CSV column the values come from.
ReadCsv(header) ==
    LET names == MangleDupes(header)
    IN  [k \in 1..Len(header) |-> [name |-> Strip(names[k]), src |-> k]]

ColumnNames(frame) == [k \in 1..Len(frame) |-> frame[k].name]

\* Variant: the error names every requested key.
MissingKeysAll(frame, keys) == keys

\* The labels of keys that are not column names, each once, in key order.
MissingKeys(frame, keys) ==
    LET cols == Range(ColumnNames(frame))
        idx == {k \in 1..Len(keys) : keys[k] \notin cols
                                     /\ \A j \in 1..(k - 1) : keys[j] # keys[k]}
        RECURSIVE Pick(_)
        Pick(k) == IF k > Len(keys) THEN <<>>
                   ELSE (IF k \in idx THEN <<keys[k]>> ELSE <<>>) \o Pick(k + 1)
    IN  Pick(1)

\* str(KeyError) raised by frame[keys] when some key is no column.
KeyErrorMsg(frame, keys) ==
    IF \A k \in 1..Len(keys) : keys[k] \notin Range(ColumnNames(frame))
    THEN [text |-> "None of [Index] are in the [columns]", names |-> keys]
    ELSE [text |-> "not in index", names |-> MissingKeys(frame, keys)]

GetItemRaises(frame, keys) ==
    keys # <<>> /\ \E k \in 1..Len(keys) : keys[k] \notin Range(ColumnNames(frame))

\* frame[keys]: for each key in turn, every column carrying that name.
GetItem(frame, keys) ==
    Concat([k \in 1..Len(keys) |-> SelectSeq(frame, LAMBDA c : c.name = keys[k])])

\* Line 143: the list comprehension.
KeptColumns(frame, schema) ==
    SelectSeq(ColumnNames(frame), LAMBDA n : n \in Range(schema))

(***************************************************************************)
(* Formatting                                                              *)
(***************************************************************************)
\* n/d rounded to an integer, ties to even (Python's float formatting).
RoundHalfEven(n, d) ==
    LET q == n \div d
        r == n % d
    IN  IF 2 * r < d THEN q
        ELSE IF 2 * r > d THEN q + 1
        ELSE IF q % 2 = 0 THEN q ELSE q + 1

\* Variant: the decimals are dropped.
Pct2Whole(prob) == <<prob \div 100, 0>>

\* Line 159: f"{prob*100:.2f}%", as <<integer part, two decimals>>.
Pct2(prob) == <<prob \div 100, prob % 100>>

\* Line 220: f"{probabilities[abx]*100:.0f}%".
Pct0(prob) == RoundHalfEven(prob, 100)

\* Line 159: "Resistant" if pred else "Sensitive".
CsvLabel(p) == IF p # 0 THEN "Resistant" ELSE "Sensitive"

\* Line 218.
PillLabel(p) == IF p = 1 THEN "Resistant" ELSE "susceptible"

\* Line 219.
PillColor(p) == IF p = 1 THEN "resistant" ELSE "susceptible"

\* dict[key] on a dict kept as a sequence of <<key, value>>.
Lookup(d, key) == (CHOOSE e \in Range(d) : e[1] = key)[2]

Keys(d) == [k \in 1..Len(d) |-> d[k][1]]

(***************************************************************************)
(* File names under static/                                                *)
(***************************************************************************)
\* Variant: the chart's name leaves out the label.
ShapPathNoLabel(u, abx) == <<"static", "shap", u, "", "png">>

\* Line 174.
ShapPath(u, abx) == <<"static", "shap", u, abx, "png">>
\* Line 201.
CsvFile(u) == <<"static", "report", u, "", "csv">>
\* Line 205.
PdfPath(u) == <<"static", "report", u, "", "pdf">>

(***************************************************************************)
(* Lines 164-167: ranking of the attributions                              *)
(***************************************************************************)
\* Variant: the sort without key=abs.
SortKeySigned(v) == v

\* key=abs
SortKey(v) == Abs(v)

\* .head(5)
HeadK(s) == SubSeq(s, 1, IF Len(s) < TopK THEN Len(s) ELSE TopK)

\* sort_values(ascending=False) with the default kind="quicksort": rows are
\* ordered by descending key, rows with equal keys in an order the sort
\* does not fix.  The set of row orders it can produce.
RECURSIVE SortOrders(_, _)
SortOrders(vals, rest) ==
    IF rest = {} THEN {<<>>}
    ELSE LET top == {k \in rest : \A j \in rest : SortKey(vals[j]) <= SortKey(vals[k])}
         IN  UNION {{<<k>> \o o : o \in SortOrders(vals, rest \ {k})} : k \in top}

\* Lines 164-167 for one row order.
TopFrame(frame, vals, order) ==
    HeadK([k \in 1..Len(order) |->
              [feature |-> frame[order[k]].name, shap |-> vals[order[k]]]])

(***************************************************************************)
(* Lines 189-198: clinical suggestion                                      *)
(***************************************************************************)
\* Variant: every label is listed once any label is resistant.
TipsAll(preds) ==
    IF \E k \in 1..Len(preds) : preds[k][2] # 0
    THEN [kind |-> "avoid", labels |-> Keys(preds)]
    ELSE [kind |-> "standard", labels |-> <<>>]

Tips(preds) ==
    IF \E k \in 1..Len(preds) : preds[k][2] # 0
    THEN [kind |-> "avoid",
          labels |-> Keys(SelectSeq(preds, LAMBDA e : e[2] = 1))]
    ELSE [kind |-> "standard", labels |-> <<>>]

\* Lines 215-221.
Pills(preds, probs) ==
    [k \in 1..Len(preds) |->
        [abx |-> preds[k][1],
         label |-> PillLabel(preds[k][2]),
         color |-> PillColor(preds[k][2]),
         percent |-> Pct0(Lookup(probs, preds[k][1]))]]

\* Variant: every label is explained.
AlwaysExplain(p) == TRUE

\* Line 161.
NeedsExplanation(p) == p = 1

\* Variant: the cause is masked by a generic message.
ErrorBodyGeneric(e) == [error |-> [text |-> "Internal Server Error", names |-> <<>>]]

\* Lines 237-238: the body of the 500 response.
ErrorBody(e) == [error |-> e.msg]

(***************************************************************************)
(* Initial state: after the module has been imported (lines 10-17)         *)
(***************************************************************************)
RequestInit ==
    /\ request = NoRequest
    /\ uid = ""
    /\ df = <<>>
    /\ i = 0
    /\ pred = 0
    /\ predictions = <<>>
    /\ probabilities = <<>>
    /\ explanations = <<>>
    /\ csv_rows = <<>>
    /\ shap_vals = <<>>
    /\ top_df = <<>>
    /\ exc = NoExc
    /\ response = NoResponse
    /\ csv_out = <<>>
    /\ pdf_out = <<>>
    /\ passes = <<>>
    /\ explained = <<>>
    /\ written = {}

Init ==
    /\ models = Labels
    /\ expected_features = Schema
    /\ static = {}
    /\ pc = "idle"
    /\ RequestInit

(***************************************************************************)
(* The handler upload_csv                                                  *)
(***************************************************************************)
\* A request arrives.
Upload(req) ==
    /\ pc = "idle"
    /\ request' = req
    /\ pc' = "entry"
    /\ UNCHANGED <<models, expected_features, static, uid, df, i, pred,
                   predictions, probabilities, explanations, csv_rows, shap_vals,
                   top_df, exc, response, csv_out, pdf_out, passes, explained,
                   written>>

\* Lines 136, 224, 238: the response is sent and the handler's locals are gone.
Return ==
    /\ pc = "done"
    /\ pc' = "idle"
    /\ request' = NoRequest
    /\ uid' = ""
    /\ df' = <<>>
    /\ i' = 0
    /\ pred' = 0
    /\ predictions' = <<>>
    /\ probabilities' = <<>>
    /\ explanations' = <<>>
    /\ csv_rows' = <<>>
    /\ shap_vals' = <<>>
    /\ top_df' = <<>>
    /\ exc' = NoExc
    /\ response' = NoResponse
    /\ csv_out' = <<>>
    /\ pdf_out' = <<>>
    /\ passes' = <<>>
    /\ explained' = <<>>
    /\ written' = {}
    /\ UNCHANGED <<models, expected_features, static>>

\* Lines 135-136.
NoFile ==
    /\ pc = "entry"
    /\ request.kind = "nofile"
    /\ response' = [status |-> 400, body |-> [error |-> [text |-> "No file uploaded", names |-> <<>>]]]
    /\ pc' = "done"
    /\ UNCHANGED <<models, expected_features, static, request, uid, df, i, pred,
                   predictions, probabilities, explanations, csv_rows, shap_vals,
                   top_df, exc, csv_out, pdf_out, passes, explained, written>>

Raise(type, msg) ==
    /\ exc' = [type |-> type, msg |-> msg]
    /\ pc' = "except"

\* Line 139: read_csv cannot parse the upload.
ReadCsvRaises ==
    /\ pc = "entry"
    /\ request.kind = "badcsv"
    /\ Raise("ParserError", [text |-> "Error tokenizing data", names |-> <<>>])
    /\ UNCHANGED <<models, expected_features, static, request, uid, df, i, pred,
                   predictions, probabilities, explanations, csv_rows, shap_vals,
                   top_df, response, csv_out, pdf_out, passes, explained, written>>

\* Lines 138-151.
Reconcile ==
    /\ pc = "entry"
    /\ request.kind = "csv"
    /\ LET frame0 == ReadCsv(request.header)
           frame1 == GetItem(frame0, KeptColumns(frame0, expected_features))
       IN  IF GetItemRaises(frame1, expected_features)
           THEN /\ Raise("KeyError", KeyErrorMsg(frame1, expected_features))
                /\ df' = frame1
                /\ UNCHANGED <<uid, i>>
           ELSE /\ df' = GetItem(frame1, expected_features)
                /\ uid' \in UIDs
                /\ i' = 1
                /\ pc' = "loop"
                /\ UNCHANGED exc
    /\ UNCHANGED <<models, expected_features, static, request, pred,
                   predictions, probabilities, explanations, csv_rows, shap_vals,
                   top_df, response, csv_out, pdf_out, passes, explained, written>>

\* What a trained XGBoost classifier accepts: the columns it was fitted on.
Accepts(frame) == ColumnNames(frame) = expected_features

\* Line 154: model.predict(df) returns.
Predict(o) ==
    /\ pc = "loop"
    /\ i <= Len(models)
    /\ Accepts(df)
    /\ pred' = o.pred
    /\ passes' = Append(passes, <<models[i], o.pred, o.prob>>)
    /\ pc' = "proba"
    /\ UNCHANGED <<models, expected_features, static, request, uid, df, i,
                   predictions, probabilities, explanations, csv_rows, shap_vals,
                   top_df, exc, response, csv_out, pdf_out, explained, written>>

\* Line 154: model.predict(df) raises.
PredictRaises ==
    /\ pc = "loop"
    /\ i <= Len(models)
    /\ Raise("ClassifierError", [text |-> "predict failed", names |-> <<>>])
    /\ UNCHANGED <<models, expected_features, static, request, uid, df, i, pred,
                   predictions, probabilities, explanations, csv_rows, shap_vals,
                   top_df, response, csv_out, pdf_out, passes, explained, written>>

\* Lines 155-161: model.predict_proba(df) returns.
PredictProba(o) ==
    /\ pc = "proba"
    /\ passes' = Append(passes, <<models[i], o.pred, o.prob>>)
    /\ predictions' = Append(predictions, <<models[i], pred>>)
    /\ probabilities' = Append(probabilities, <<models[i], o.prob>>)
    /\ csv_rows' = Append(csv_rows, <<models[i], CsvLabel(pred), Pct2(o.prob)>>)
    /\ IF NeedsExplanation(pred)
       THEN pc' = "explain" /\ i' = i
       ELSE pc' = "loop" /\ i' = i + 1
    /\ UNCHANGED <<models, expected_features, static, request, uid, df, pred,
                   explanations, shap_vals, top_df, exc, response, csv_out,
                   pdf_out, explained, written>>

\* Line 155: model.predict_proba(df) raises.
PredictProbaRaises ==
    /\ pc = "proba"
    /\ Raise("ClassifierError", [text |-> "predict_proba failed", names |-> <<>>])
    /\ UNCHANGED <<models, expected_features, static, request, uid, df, i, pred,
                   predictions, probabilities, explanations, csv_rows, shap_vals,
                   top_df, response, csv_out, pdf_out, passes, explained, written>>

\* Lines 162-163: the explainer returns one value per column of df.
Explain(vals) ==
    /\ pc = "explain"
    /\ shap_vals' = vals
    /\ explained' = Append(explained, models[i])
    /\ pc' = "rank"
    /\ UNCHANGED <<models, expected_features, static, request, uid, df, i, pred,
                   predictions, probabilities, explanations, csv_rows,
                   top_df, exc, response, csv_out, pdf_out, passes, written>>

\* Lines 162-163: the explainer raises.
ExplainRaises ==
    /\ pc = "explain"
    /\ explained' = Append(explained, models[i])
    /\ Raise("ExplainerError", [text |-> "explainer failed", names |-> <<>>])
    /\ UNCHANGED <<models, expected_features, static, request, uid, df, i, pred,
                   predictions, probabilities, explanations, csv_rows, shap_vals,
                   top_df, response, csv_out, pdf_out, passes, written>>

\* Lines 164-167.
Rank ==
    /\ pc = "rank"
    /\ \E order \in SortOrders(shap_vals, 1..Len(shap_vals)) :
           top_df' = TopFrame(df, shap_vals, order)
    /\ pc' = "plot"
    /\ UNCHANGED <<models, expected_features, static, request, uid, df, i, pred,
                   predictions, probabilities, explanations, csv_rows, shap_vals,
                   exc, response, csv_out, pdf_out, passes, explained, written>>

\* Lines 169-187: the chart is saved and the explanation block appended.
Plot ==
    /\ pc = "plot"
    /\ static' = static \cup {ShapPath(uid, models[i])}
    /\ written' = written \cup {ShapPath(uid, models[i])}
    /\ explanations' = Append(explanations,
           [abx |-> models[i], items |-> top_df, img |-> ShapPath(uid, models[i])])
    /\ i' = i + 1
    /\ pc' = "loop"
    /\ UNCHANGED <<models, expected_features, request, uid, df, pred,
                   predictions, probabilities, csv_rows, shap_vals, top_df,
                   exc, response, csv_out, pdf_out, passes, explained>>

\* Lines 189-235: suggestion, CSV, PDF, pills and the returned fragment.
Finish ==
    /\ pc = "loop"
    /\ i > Len(models)
    /\ csv_out' = <<[columns |-> <<"Antibiotic", "Prediction", "Probability">>,
                     rows |-> csv_rows]>>
    /\ pdf_out' = <<[title |-> "UTI Antimicrobial Resistance Report",
                     lines |-> csv_rows]>>
    /\ static' = static \cup {CsvFile(uid), PdfPath(uid)}
    /\ written' = written \cup {CsvFile(uid), PdfPath(uid)}
    /\ response' = [status |-> 200,
                    body |-> [pills |-> Pills(predictions, probabilities),
                              tips |-> Tips(predictions),
                              explanations |-> explanations,
                              csv_href |-> CsvFile(uid),
                              pdf_href |-> PdfPath(uid)]]
    /\ pc' = "done"
    /\ UNCHANGED <<models, expected_features, request, uid, df, i, pred,
                   predictions, probabilities, explanations, csv_rows, shap_vals,
                   top_df, exc, passes, explained>>

\* Lines 237-238.
HandleException ==
    /\ pc = "except"
    /\ response' = [status |-> 500, body |-> ErrorBody(exc)]
    /\ pc' = "done"
    /\ UNCHANGED <<models, expected_features, static, request, uid, df, i, pred,
                   predictions, probabilities, explanations, csv_rows, shap_vals,
                   top_df, exc, csv_out, pdf_out, passes, explained, written>>

Next ==
    \/ \E req \in Requests : Upload(req)
    \/ NoFile
    \/ ReadCsvRaises
    \/ Reconcile
    \/ \E o \in Outcomes : Predict(o)
    \/ PredictRaises
    \/ \E o \in Outcomes : PredictProba(o)
    \/ PredictProbaRaises
    \/ \E vals \in [1..Len(df) -> ShapVals] : Explain(vals)
    \/ ExplainRaises
    \/ Rank
    \/ Plot
    \/ Finish
    \/ HandleException
    \/ Return

Spec == Init /\ [][Next]_vars

(***************************************************************************)
(* The ranking of lines 164-167 on a schema longer than TopK               *)
(***************************************************************************)
InitRank ==
    /\ models = <<"AMX">>
    /\ expected_features = RankSchema
    /\ static = {}
    /\ pc = "rank"
    /\ request = [kind |-> "csv", header |-> RankSchema]
    /\ uid \in UIDs
    /\ df = ReadCsv(RankSchema)
    /\ i = 1
    /\ pred = 1
    /\ predictions = << <<"AMX", 1>> >>
    /\ probabilities = << <<"AMX", 8150>> >>
    /\ explanations = <<>>
    /\ csv_rows = << <<"AMX", CsvLabel(1), Pct2(8150)>> >>
    /\ shap_vals \in [1..NumRankFeatures -> ShapVals]
    /\ top_df = <<>>
    /\ exc = NoExc
    /\ response = NoResponse
    /\ csv_out = <<>>
    /\ pdf_out = <<>>
    /\ passes = << <<"AMX", 1, 8150>>, <<"AMX", 1, 8150>> >>
    /\ explained = <<"AMX">>
    /\ written = {}

NextRank == Rank

SpecRank == InitRank /\ [][NextRank]_vars

(***************************************************************************)
(* Properties                                                              *)
(***************************************************************************)
Handled == pc = "done"
Succeeded == pc = "done" /\ response.status = 200
Failed == pc = "done" /\ response.status = 500

\* The schema features that no trimmed header name of the upload equals.
MissingFeatures ==
    {f \in Range(expected_features) :
        \A k \in 1..Len(request.header) : Strip(request.header[k]) # f}

IsCsv == request.kind = "csv" /\ pc # "entry"

VerdictOf(text) == IF text = "Resistant" THEN 1 ELSE 0

Resistant(abx) == Lookup(predictions, abx) = 1

\* C1: a row whose trimmed column names include every schema feature
\* (any order, extra columns, two raw names trimming to one schema name
\* included) gives the models a feature vector with exactly the schema's
\* features, each once, in schema order.
C1_ReconcileSuccess ==
    (IsCsv /\ MissingFeatures = {}) =>
        /\ pc # "except" \/ exc.type # "KeyError"
        /\ ColumnNames(df) = expected_features

\* C2: a row missing at least one schema feature fails the request with an
\* error naming exactly the missing schema features; no classifier is
\* evaluated and no value is made up for the missing columns.
C2_ReconcileFailure ==
    (IsCsv /\ MissingFeatures # {}) =>
        /\ pc \in {"except", "done"}
        /\ exc.type = "KeyError"
        /\ Range(exc.msg.names) = MissingFeatures
        /\ passes = <<>> /\ predictions = <<>> /\ explained = <<>>
        /\ \A k \in 1..Len(df) : Strip(request.header[df[k].src]) = df[k].name
        /\ Handled => /\ response.status = 500
                      /\ Range(response.body.error.names) = MissingFeatures

C2_Witness ==
    /\ Handled /\ IsCsv
    /\ MissingFeatures = {<<"b">>}
    /\ Len(request.header) >= 2
    /\ response.status = 500

\* C3: the verdict and the probability reported for a label are the pair
\* produced by one single evaluation of that label's classifier.
C3_OneEvaluation ==
    \A k \in 1..Len(predictions) :
        \E p \in Range(passes) :
            p = <<predictions[k][1], predictions[k][2], probabilities[k][2]>>

C5_ExplanationContained ==
    (Handled /\ exc.type = "ExplainerError") =>
        /\ response.status = 200
        /\ Len(response.body.pills) = Len(models)

\* C6: an attribution list is computed and reported only for labels whose
\* verdict is Resistant; the explainer is never invoked for a Sensitive one.
C6_OnlyResistantExplained ==
    /\ \A k \in 1..Len(explained) :
           \E r \in Range(csv_rows) : r[1] = explained[k] /\ r[2] = "Resistant"
    /\ \A k \in 1..Len(explanations) :
           \E r \in Range(csv_rows) : r[1] = explanations[k].abx /\ r[2] = "Resistant"
    /\ Succeeded =>
           \A k \in 1..Len(response.body.explanations) :
               \E q \in Range(response.body.pills) :
                   /\ q.abx = response.body.explanations[k].abx
                   /\ q.label = "Resistant"

C6_Witness ==
    /\ Succeeded
    /\ \E r \in Range(csv_rows) : r[2] = "Sensitive"
    /\ Len(response.body.explanations) = 1
    /\ Len(explained) = 1

\* The ranking claims read top_df once Rank has produced it.
Ranked == pc = "plot"
FeatureIndex(f) == CHOOSE k \in 1..Len(df) : df[k].name = f
Chosen == {FeatureIndex(top_df[k].feature) : k \in 1..Len(top_df)}
TopSize == IF Len(df) < TopK THEN Len(df) ELSE TopK

\* top_df holds TopSize distinct features with their own values, by
\* non-increasing absolute value, and no feature left out outweighs one kept.
TopByMagnitude ==
    /\ Len(top_df) = TopSize
    /\ \A k \in 1..Len(top_df) :
           /\ top_df[k].feature \in Range(ColumnNames(df))
           /\ top_df[k].shap = shap_vals[FeatureIndex(top_df[k].feature)]
    /\ Cardinality(Chosen) = Len(top_df)
    /\ \A j, k \in 1..Len(top_df) :
           j < k => Abs(top_df[j].shap) >= Abs(top_df[k].shap)
    /\ \A out \in (1..Len(df)) \ Chosen, k \in 1..Len(top_df) :
           Abs(shap_vals[out]) <= Abs(top_df[k].shap)

\* Equal absolute values keep the schema's feature order.
TiesInFeatureOrder ==
    /\ \A j, k \in 1..Len(top_df) :
           (j < k /\ Abs(top_df[j].shap) = Abs(top_df[k].shap))
               => FeatureIndex(top_df[j].feature) < FeatureIndex(top_df[k].feature)
    /\ \A out \in (1..Len(df)) \ Chosen, k \in 1..Len(top_df) :
           Abs(shap_vals[out]) = Abs(top_df[k].shap)
               => FeatureIndex(top_df[k].feature) < out

\* C7 as stated: the attribution list is the first min(5, n) features by
\* descending absolute contribution, ties in original feature order.
C7_StableTopK == Ranked => (TopByMagnitude /\ TiesInFeatureOrder)

\* C7 (amended): the attribution list is the first min(5, n) entries of an
\* ordering of the features by descending absolute contribution, features of
\* equal absolute contribution in no particular order; it has at most 5
\* entries and non-increasing absolute values.
C7_TopKByMagnitude == Ranked => (TopByMagnitude /\ Len(top_df) <= 5)

C7_Witness ==
    /\ Ranked
    /\ Len(df) > TopK /\ Len(top_df) = TopK
    /\ \E out \in (1..Len(df)) \ Chosen : Abs(shap_vals[out]) = Abs(top_df[TopK].shap)
    /\ \E j, k \in 1..TopK : top_df[j].shap = -top_df[k].shap

RegistryIndex(abx) == CHOOSE k \in 1..Len(models) : models[k] = abx

\* C8: in a successful request the summary lists a label iff its verdict is
\* Resistant, in registry order, and is the fixed no-resistance message iff
\* no label is Resistant.
C8_Summary ==
    Succeeded =>
        LET tips == response.body.tips
            resistant == {abx \in Range(models) : Resistant(abx)}
        IN  /\ tips.kind = "standard" <=> resistant = {}
            /\ tips.kind = "avoid" <=> tips.labels # <<>>
            /\ Range(tips.labels) = resistant
            /\ \A j, k \in 1..Len(tips.labels) :
                   j < k => RegistryIndex(tips.labels[j]) < RegistryIndex(tips.labels[k])

C8_Witness ==
    /\ Succeeded
    /\ response.body.tips.kind = "avoid"
    /\ response.body.tips.labels = <<"CIP">>
    /\ ~Resistant("AMX")

\* What each render target holds for the k-th label of the registry.
FragmentHas(k) ==
    LET q == response.body.pills[k]
    IN  /\ q.abx = models[k]
        /\ VerdictOf(q.label) = predictions[k][2]
        /\ q.percent * 100 - probabilities[k][2] \in -50..50

RowHas(row, k) ==
    /\ row[1] = models[k]
    /\ VerdictOf(row[2]) = predictions[k][2]
    /\ row[3][1] * 100 + row[3][2] = probabilities[k][2]

VerdictsEverywhere ==
    /\ Len(response.body.pills) = Len(models)
    /\ Len(csv_out[1].rows) = Len(models)
    /\ Len(pdf_out[1].lines) = Len(models)
    /\ \A k \in 1..Len(models) :
           /\ predictions[k][1] = models[k] /\ probabilities[k][1] = models[k]
           /\ FragmentHas(k)
           /\ RowHas(csv_out[1].rows[k], k)
           /\ RowHas(pdf_out[1].lines[k], k)

FragmentHasAttributions ==
    /\ response.body.explanations = explanations
    /\ \A abx \in Range(models) :
           Resistant(abx) <=> \E e \in Range(explanations) : e.abx = abx

\* The attribution lists a row of the table or a line of the document carries.
RowAttributions(row) == {row[k] : k \in 4..Len(row)}

\* C9 as stated: each of the three render targets holds every label's
\* verdict and probability and every attribution list there is.
C9_AllTargetsComplete ==
    Succeeded =>
        /\ VerdictsEverywhere
        /\ FragmentHasAttributions
        /\ \A e \in Range(explanations) :
               /\ e.items \in RowAttributions(csv_out[1].rows[RegistryIndex(e.abx)])
               /\ e.items \in RowAttributions(pdf_out[1].lines[RegistryIndex(e.abx)])

\* C9 (amended): each of the three render targets holds every label's
\* verdict and probability (two decimals of a percent in the table and the
\* document, the nearest whole percent in the fragment); the attribution
\* lists are in the interactive fragment only.
C9_VerdictsInAllTargets ==
    Succeeded =>
        /\ VerdictsEverywhere
        /\ FragmentHasAttributions
        /\ \A k \in 1..Len(models) :
               /\ RowAttributions(csv_out[1].rows[k]) = {}
               /\ RowAttributions(pdf_out[1].lines[k]) = {}

C9_Witness ==
    /\ Succeeded
    /\ Len(explanations) = 1
    /\ \E k \in 1..Len(models) : predictions[k][2] = 0 /\ probabilities[k][2] = 8150
    /\ \E k \in 1..Len(models) : predictions[k][2] = 1 /\ probabilities[k][2] = 250

====
